---- MODULE Spec2Model ----
(***************************************************************************)
(* Tether (app.py): the archetype scoring engine (analyze_archetype,       *)
(* get_archetype_percentages) and the spreadsheet logging routine          *)
(* (log_to_gsheets).                                                       *)
(*                                                                         *)
(* A text is a sequence of one-character strings, so that lower-casing,    *)
(* the regular expression \b\w+\b and Python's substring test "k in s" are *)
(* computed character by character, as the interpreter computes them.      *)
(***************************************************************************)
EXTENDS Integers, Sequences, FiniteSets, TLC

VARIABLES
  resume_text,   \* the text extracted from the uploaded file (app.py 245-248)
  npages,        \* how many pages of the uploaded file have been read
  pc,            \* position of the script run: "upload", "scored", "resolved"
  locals,        \* analyze_archetype's locals as they stand after line 81
  scores,        \* the ScoreSet analyze_archetype returned (app.py 251)
  result,        \* (pcts, sorted_pcts, is_hybrid) of app.py 252
  sheet,         \* the rows of the 'Logs' worksheet
  lpc,           \* per session: position inside log_to_gsheets
  existing_data, \* per session: the rows conn.read returned (app.py 226)
  new_row,       \* per session: the row built at app.py 211-223
  calls,         \* per session: log_to_gsheets calls started
  returned       \* the rows of the calls that returned True, in return order

coreVars == <<resume_text, npages, pc, locals, scores, result>>
logVars == <<sheet, lpc, existing_data, new_row, calls, returned>>
vars == <<resume_text, npages, pc, locals, scores, result,
          sheet, lpc, existing_data, new_row, calls, returned>>

\* Bounds of the model.
MaxPages == 3
NumSessions == 2
MaxCalls == 2

\* BRIDGE_VERBS (app.py 41-51): the Bridge lexicon.
BRIDGE_VERBS ==
  { <<"n","e","g","o","t","i","a","t","e">>,
    <<"c","l","o","s","e">>,
    <<"p","r","o","s","p","e","c","t">>,
    <<"c","a","n","v","a","s","s">>,
    <<"p","i","t","c","h">>,
    <<"l","o","b","b","y">>,
    <<"a","d","v","o","c","a","t","e">>,
    <<"r","a","l","l","y">>,
    <<"g","a","l","v","a","n","i","z","e">>,
    <<"b","r","o","k","e","r">>,
    <<"i","n","f","l","u","e","n","c","e">>,
    <<"c","h","a","r","m">>,
    <<"c","o","n","v","e","r","t">>,
    <<"r","e","c","r","u","i","t">>,
    <<"s","o","u","r","c","e">>,
    <<"i","n","t","e","r","v","i","e","w">>,
    <<"h","i","r","e">>,
    <<"o","n","b","o","a","r","d">>,
    <<"p","e","r","s","u","a","d","e">>,
    <<"s","e","l","l">>,
    <<"u","p","s","e","l","l">>,
    <<"w","i","n">>,
    <<"s","e","c","u","r","e">>,
    <<"c","a","p","t","u","r","e">>,
    <<"r","e","t","a","i","n">>,
    <<"d","e","a","l">>,
    <<"n","e","t","w","o","r","k">>,
    <<"a","l","i","g","n">>,
    <<"u","n","i","f","y">>,
    <<"i","n","t","e","g","r","a","t","e">>,
    <<"m","e","r","g","e">>,
    <<"m","e","n","t","o","r">>,
    <<"c","o","a","c","h">>,
    <<"e","m","p","o","w","e","r">>,
    <<"f","a","c","i","l","i","t","a","t","e">>,
    <<"m","e","d","i","a","t","e">>,
    <<"l","i","a","i","s","e">>,
    <<"c","o","l","l","a","b","o","r","a","t","e">>,
    <<"p","a","r","t","n","e","r">>,
    <<"g","u","i","d","e">>,
    <<"t","e","a","c","h">>,
    <<"t","r","a","i","n">>,
    <<"p","r","e","s","e","n","t">>,
    <<"s","p","e","a","k">>,
    <<"c","o","m","m","u","n","i","c","a","t","e">>,
    <<"t","r","a","n","s","l","a","t","e">>,
    <<"b","r","i","d","g","e">>,
    <<"c","o","n","n","e","c","t">>,
    <<"r","e","p","r","e","s","e","n","t">>,
    <<"c","h","a","m","p","i","o","n">>,
    <<"e","v","a","n","g","e","l","i","z","e">>,
    <<"f","o","s","t","e","r">>,
    <<"c","u","l","t","i","v","a","t","e">>,
    <<"n","u","r","t","u","r","e">>,
    <<"r","e","l","a","t","i","o","n","s","h","i","p">>,
    <<"s","t","a","k","e","h","o","l","d","e","r">> }

\* BUILDER_VERBS (app.py 53-59): the Builder lexicon.
BUILDER_VERBS ==
  { <<"b","u","i","l","d">>,
    <<"a","r","c","h","i","t","e","c","t">>,
    <<"e","n","g","i","n","e","e","r">>,
    <<"d","e","v","e","l","o","p">>,
    <<"c","o","d","e">>,
    <<"p","r","o","g","r","a","m">>,
    <<"d","e","s","i","g","n">>,
    <<"c","r","e","a","t","e">>,
    <<"c","o","n","s","t","r","u","c","t">>,
    <<"f","o","r","g","e">>,
    <<"i","m","p","l","e","m","e","n","t">>,
    <<"d","e","p","l","o","y">>,
    <<"l","a","u","n","c","h">>,
    <<"s","h","i","p">>,
    <<"p","r","o","t","o","t","y","p","e">>,
    <<"d","r","a","f","t">>,
    <<"c","o","m","p","o","s","e">>,
    <<"w","r","i","t","e">>,
    <<"a","u","t","h","o","r">>,
    <<"f","a","b","r","i","c","a","t","e">>,
    <<"a","s","s","e","m","b","l","e">>,
    <<"i","n","v","e","n","t">>,
    <<"i","n","n","o","v","a","t","e">>,
    <<"p","i","o","n","e","e","r">>,
    <<"f","o","u","n","d">>,
    <<"e","s","t","a","b","l","i","s","h">>,
    <<"g","e","n","e","r","a","t","e">>,
    <<"p","r","o","d","u","c","e">>,
    <<"c","r","a","f","t">>,
    <<"d","e","v","i","s","e">>,
    <<"f","o","r","m","u","l","a","t","e">>,
    <<"c","o","n","c","e","p","t","u","a","l","i","z","e">>,
    <<"m","o","d","e","l">> }

\* OPERATOR_VERBS (app.py 61-67): the Operator lexicon.
OPERATOR_VERBS ==
  { <<"m","a","n","a","g","e">>,
    <<"o","p","e","r","a","t","e">>,
    <<"r","u","n">>,
    <<"m","a","i","n","t","a","i","n">>,
    <<"s","u","p","p","o","r","t">>,
    <<"a","d","m","i","n","i","s","t","e","r">>,
    <<"o","p","t","i","m","i","z","e">>,
    <<"s","t","r","e","a","m","l","i","n","e">>,
    <<"s","c","a","l","e">>,
    <<"e","x","e","c","u","t","e">>,
    <<"p","r","o","c","e","s","s">>,
    <<"h","a","n","d","l","e">>,
    <<"o","v","e","r","s","e","e">>,
    <<"s","u","p","e","r","v","i","s","e">>,
    <<"d","i","r","e","c","t">>,
    <<"c","o","o","r","d","i","n","a","t","e">>,
    <<"m","o","n","i","t","o","r">>,
    <<"t","r","a","c","k">>,
    <<"r","e","p","o","r","t">>,
    <<"a","n","a","l","y","z","e">>,
    <<"a","u","d","i","t">>,
    <<"e","n","s","u","r","e">>,
    <<"e","n","f","o","r","c","e">>,
    <<"c","o","m","p","l","y">>,
    <<"r","e","g","u","l","a","t","e">>,
    <<"b","u","d","g","e","t">>,
    <<"f","o","r","e","c","a","s","t">>,
    <<"s","c","h","e","d","u","l","e">>,
    <<"l","o","g","i","s","t","i","c","s">>,
    <<"i","n","v","e","n","t","o","r","y">>,
    <<"e","f","f","i","c","i","e","n","c","y">>,
    <<"w","o","r","k","f","l","o","w">>,
    <<"s","y","s","t","e","m","a","t","i","z","e">>,
    <<"o","r","g","a","n","i","z","e">> }

\* SALES_KEYWORDS (app.py 69): commercial-context phrases.
SALES_KEYWORDS ==
  { <<"s","a","l","e","s">>,
    <<"a","c","c","o","u","n","t">>,
    <<"b","u","s","i","n","e","s","s"," ","d","e","v","e","l","o","p","m","e","n","t">>,
    <<"b","i","z"," ","d","e","v">>,
    <<"r","e","c","r","u","i","t","e","r">>,
    <<"t","a","l","e","n","t"," ","a","c","q","u","i","s","i","t","i","o","n">>,
    <<"p","r">>,
    <<"p","u","b","l","i","c"," ","r","e","l","a","t","i","o","n","s">>,
    <<"b","r","a","n","d">>,
    <<"m","a","r","k","e","t","i","n","g">>,
    <<"c","l","i","e","n","t">>,
    <<"c","u","s","t","o","m","e","r"," ","s","u","c","c","e","s","s">> }

\* EXECUTIVE_KEYWORDS (app.py 70): executive-context phrases.
EXECUTIVE_KEYWORDS ==
  { <<"c","h","i","e","f">>,
    <<"p","r","e","s","i","d","e","n","t">>,
    <<"v","p">>,
    <<"v","i","c","e"," ","p","r","e","s","i","d","e","n","t">>,
    <<"h","e","a","d"," ","o","f">>,
    <<"d","i","r","e","c","t","o","r">>,
    <<"f","o","u","n","d","e","r">>,
    <<"c","-","s","u","i","t","e">>,
    <<"p","r","i","n","c","i","p","a","l">> }

\* The characters Python's \w matches among those the model's texts use.
LowerLetters ==
  <<"a","b","c","d","e","f","g","h","i","j","k","l","m",
    "n","o","p","q","r","s","t","u","v","w","x","y","z">>
UpperLetters ==
  <<"A","B","C","D","E","F","G","H","I","J","K","L","M",
    "N","O","P","Q","R","S","T","U","V","W","X","Y","Z">>
Digits == {"0","1","2","3","4","5","6","7","8","9"}

Range(s) == {s[i] : i \in DOMAIN s}

\* str.lower() on one character (app.py 73).
lower_char(c) ==
  IF \E i \in DOMAIN UpperLetters : UpperLetters[i] = c
    THEN LowerLetters[CHOOSE i \in DOMAIN UpperLetters : UpperLetters[i] = c]
    ELSE c

\* text.lower() (app.py 73).
lower(text) == [i \in 1..Len(text) |-> lower_char(text[i])]

\* \w of the regular expression at app.py 74.
is_word_char(c) ==
  c \in Range(LowerLetters) \cup Range(UpperLetters) \cup Digits \cup {"_"}

\* re.findall(r'\b\w+\b', s) (app.py 74): a left-to-right scan, cur being the
\* run of word characters read so far; a run ends at a non-word character or
\* at the end of the text.
RECURSIVE findall_from(_, _, _)
findall_from(s, i, cur) ==
  IF i > Len(s)
    THEN (IF cur = <<>> THEN <<>> ELSE <<cur>>)
    ELSE IF is_word_char(s[i])
      THEN findall_from(s, i + 1, Append(cur, s[i]))
      ELSE (IF cur = <<>> THEN <<>> ELSE <<cur>>) \o findall_from(s, i + 1, <<>>)

findall(s) == findall_from(s, 1, <<>>)

\* Faulty variant of WordHit: a repeated word counts once.
DistinctHit(words, i, VERBS) ==
  words[i] \in VERBS /\ \A j \in 1..(i - 1) : words[j] # words[i]

\* The test "w in VERBS" of app.py 76-78 on the i-th word.
WordHit(words, i, VERBS) == words[i] \in VERBS

\* sum(10 for w in words if w in VERBS) (app.py 76-78).
RECURSIVE sum_hits(_, _, _)
sum_hits(words, i, VERBS) ==
  IF i > Len(words) THEN 0
  ELSE (IF WordHit(words, i, VERBS) THEN 10 ELSE 0) + sum_hits(words, i + 1, VERBS)

\* Python's "k in s" on strings: k occurs in s as a contiguous substring.
is_substring(k, s) ==
  \E i \in 0..(Len(s) - Len(k)) : SubSeq(s, i + 1, i + Len(k)) = k

\* Faulty variant of any_keyword: a phrase counts only as a whole word.
any_token(KEYWORDS, text_lower) ==
  \E k \in KEYWORDS : k \in Range(findall(text_lower))

\* any(k in text_lower for k in KEYWORDS) (app.py 80-81).
any_keyword(KEYWORDS, text_lower) ==
  \E k \in KEYWORDS : is_substring(k, text_lower)

\* Faulty variant of base_score: 10 per occurrence of a keyword as a
\* substring of the text.
keyword_in_text(text_lower, VERBS) ==
  10 * Cardinality({<<i, k>> \in (0..Len(text_lower)) \X VERBS :
                      i + Len(k) <= Len(text_lower)
                      /\ SubSeq(text_lower, i + 1, i + Len(k)) = k})

\* A base score of app.py 76-78: the words of the text, then the sum.
base_score(text_lower, VERBS) == sum_hits(findall(text_lower), 1, VERBS)

\* Faulty variant of commercial_boost: the boost is not applied.
boost_dropped(bridge_score) == bridge_score

\* int(bridge_score * 1.5) (app.py 84). 1.5 is exact in binary floating
\* point and so is the product, so int() truncates the exact value.
commercial_boost(bridge_score) == (bridge_score * 15) \div 10

\* Faulty variants of executive_shift: a factor of 0.1, a factor of 2.
shift_tenth(operator_score) == operator_score \div 10
shift_double(operator_score) == operator_score * 2

\* int(operator_score * 0.2) (app.py 87). The double nearest 0.2 lies above
\* 0.2 by less than half a unit in the last place, so the rounded product is
\* never below the exact one and int() gives the floor of the exact value.
executive_shift(operator_score) == (operator_score * 2) \div 10

\* Faulty variant of score_total: the Bridge score is left out.
total_without_bridge(builder_score, operator_score, bridge_score) ==
  builder_score + operator_score

\* total = builder_score + operator_score + bridge_score (app.py 91).
score_total(builder_score, operator_score, bridge_score) ==
  builder_score + operator_score + bridge_score

\* analyze_archetype's locals after line 81: the three base scores and the
\* two context flags.
analyze_locals(text) ==
  LET text_lower == lower(text)
  IN  [ builder_score  |-> base_score(text_lower, BUILDER_VERBS),
        operator_score |-> base_score(text_lower, OPERATOR_VERBS),
        bridge_score   |-> base_score(text_lower, BRIDGE_VERBS),
        is_commercial  |-> any_keyword(SALES_KEYWORDS, text_lower),
        is_executive   |-> any_keyword(EXECUTIVE_KEYWORDS, text_lower) ]

\* analyze_archetype (app.py 72-100), from line 83 on.
analyze_adjust(l) ==
  LET boosted == IF l.is_commercial THEN commercial_boost(l.bridge_score)
                 ELSE l.bridge_score
      shift == IF l.is_executive THEN executive_shift(l.operator_score) ELSE 0
      builder_score == l.builder_score
      operator_score == l.operator_score - shift
      bridge_score == boosted + shift
      total == score_total(builder_score, operator_score, bridge_score)
  IN  IF total = 0
        THEN [Builder |-> 0, Operator |-> 0, Bridge |-> 0, Total |-> 1]
        ELSE [Builder |-> builder_score, Operator |-> operator_score,
              Bridge |-> bridge_score, Total |-> total]

analyze_archetype(text) == analyze_adjust(analyze_locals(text))

\* round((score / total) * 100) (app.py 105-107): Python 3 round() of a
\* double, ties to even. The quotient and the product are each rounded to a
\* double, which matters only where 100*score/total is exactly k + 1/2, that
\* is for the ratios n/8, n/40 and n/200 in lowest terms: of these the double
\* computation leaves the tie for 23/40 (57.49999999999999, giving 57) and
\* for 109/200 (54.50000000000001, giving 55) and is exact for all others.
round_pct(score, total) ==
  LET n == 100 * score
      q == n \div total
      r == n % total
  IN  IF 40 * score = 23 * total THEN 57
      ELSE IF 200 * score = 109 * total THEN 55
      ELSE IF 2 * r < total THEN q
      ELSE IF 2 * r > total THEN q + 1
      ELSE IF q % 2 = 0 THEN q ELSE q + 1

\* Faulty variant of sorted_reverse: an ascending sort read backwards, which
\* turns the order of equal keys around.
sorted_then_reversed(items) ==
  LET n == Len(items)
      rank(i) == 1 + Cardinality({j \in 1..n :
                    \/ items[j][2] > items[i][2]
                    \/ items[j][2] = items[i][2] /\ j > i})
  IN  [p \in 1..n |-> items[CHOOSE i \in 1..n : rank(i) = p]]

\* sorted(items, key=lambda x: x[1], reverse=True) (app.py 109): Python's
\* sort is stable, and with reverse=True equal keys keep their original
\* order. items[i] is the pair <<name, percentage>>.
sorted_reverse(items) ==
  LET n == Len(items)
      rank(i) == 1 + Cardinality({j \in 1..n :
                    \/ items[j][2] > items[i][2]
                    \/ items[j][2] = items[i][2] /\ j < i})
  IN  [p \in 1..n |-> items[CHOOSE i \in 1..n : rank(i) = p]]

\* Faulty variant of hybrid_rule: a gap of exactly 20 counts as hybrid.
gap_at_most_20(gap) == gap <= 20

\* is_hybrid = gap < 20 (app.py 114).
hybrid_rule(gap) == gap < 20

\* get_archetype_percentages (app.py 102-116). pcts.items() lists the keys in
\* the order the dict literal gives them: Builder, Operator, Bridge.
get_archetype_percentages(s) ==
  LET total == s.Total
      pcts == [ Builder  |-> round_pct(s.Builder, total),
                Operator |-> round_pct(s.Operator, total),
                Bridge   |-> round_pct(s.Bridge, total) ]
      items == << <<"Builder", pcts.Builder>>, <<"Operator", pcts.Operator>>,
                  <<"Bridge", pcts.Bridge>> >>
      sorted_pcts == sorted_reverse(items)
      primary == sorted_pcts[1]
      secondary == sorted_pcts[2]
      gap == primary[2] - secondary[2]
  IN  [pcts |-> pcts, sorted_pcts |-> sorted_pcts, is_hybrid |-> hybrid_rule(gap)]

\* Page texts a document is put together from (extract_text_from_pdf appends
\* page.get_text() page by page, app.py 124-126).
ExampleText ==
  <<"I"," ","b","u","i","l","d"," ","a","n","d"," ","b","u","i","l","d"," ",
    "a","n","d"," ","b","u","i","l","d"," ","p","r","o","d","u","c","t","s">>
PageTexts ==
  { <<"b","u","i","l","d"," ">>,
    <<"r","e">>,
    <<"M","a","n","a","g","e",",">>,
    <<"p","i","t","c","h"," ">>,
    <<"V","P"," ">>,
    <<"s","a","l","e","s"," ">>,
    <<"p","r","e","s","e","n","t"," ">>,
    <<"P","R"," ","d","i","r","e","c","t","o","r","_">>,
    <<"h","e","a","d"," ">>,
    <<"o","f"," ">>,
    ExampleText }

NotYet == [none |-> TRUE]

InitCore ==
  /\ resume_text = <<>>
  /\ npages = 0
  /\ pc = "upload"
  /\ locals = NotYet
  /\ scores = NotYet
  /\ result = NotYet

\* extract_text_from_pdf's loop body, text += page.get_text() (app.py 125-126).
ExtractPage(page) ==
  /\ pc = "upload"
  /\ npages < MaxPages
  /\ resume_text' = resume_text \o page
  /\ npages' = npages + 1
  /\ UNCHANGED <<pc, locals, scores, result>>

\* scores = analyze_archetype(resume_text) (app.py 251).
Analyze ==
  /\ pc = "upload"
  /\ locals' = analyze_locals(resume_text)
  /\ scores' = analyze_archetype(resume_text)
  /\ pc' = "scored"
  /\ UNCHANGED <<resume_text, npages, result>>

\* pcts, sorted_pcts, is_hybrid = get_archetype_percentages(scores) (app.py 252).
Resolve ==
  /\ pc = "scored"
  /\ result' = get_archetype_percentages(scores)
  /\ pc' = "resolved"
  /\ UNCHANGED <<resume_text, npages, locals, scores>>

\* Sessions of the application; Streamlit runs each session's script in a
\* thread of its own, all of them writing the one 'Logs' worksheet.
Sessions == 1..NumSessions

\* Results handed to log_to_gsheets (app.py 302).
LoggedTexts == { <<"b","u","i","l","d"," ">>, <<"b","u","i","l","d"," ","M","a","n","a","g","e">> }
LoggedResults == { get_archetype_percentages(analyze_archetype(t)) : t \in LoggedTexts }

\* The row log_to_gsheets builds (app.py 201-223). call stands for the
\* Timestamp column; the label "P + S" is the pair <<P, S>>.
log_row(session, call, r) ==
  LET primary == r.sorted_pcts[1][1]
      secondary == r.sorted_pcts[2][1]
      delta == r.sorted_pcts[1][2] - r.sorted_pcts[2][2]
  IN  [ Timestamp           |-> call,
        Session_ID          |-> session,
        Archetype_Label     |-> IF r.is_hybrid THEN <<primary, secondary>>
                                ELSE <<primary>>,
        Archetype_Primary   |-> primary,
        Archetype_Secondary |-> secondary,
        Gap_Delta           |-> delta,
        Score_Builder       |-> r.pcts.Builder,
        Score_Operator      |-> r.pcts.Operator,
        Score_Bridge        |-> r.pcts.Bridge ]

InitLog ==
  /\ sheet = <<>>
  /\ lpc = [s \in Sessions |-> "idle"]
  /\ existing_data = [s \in Sessions |-> <<>>]
  /\ new_row = [s \in Sessions |-> NotYet]
  /\ calls = [s \in Sessions |-> 0]
  /\ returned = <<>>

\* log_to_gsheets up to the row being built (app.py 196-223).
LogCall(s, r) ==
  /\ lpc[s] = "idle"
  /\ calls[s] < MaxCalls
  /\ calls' = [calls EXCEPT ![s] = @ + 1]
  /\ new_row' = [new_row EXCEPT ![s] = log_row(s, calls[s] + 1, r)]
  /\ lpc' = [lpc EXCEPT ![s] = "read"]
  /\ UNCHANGED <<sheet, existing_data, returned>>

\* existing_data = conn.read(worksheet="Logs", ...) (app.py 226).
LogRead(s) ==
  /\ lpc[s] = "read"
  /\ existing_data' = [existing_data EXCEPT ![s] = sheet]
  /\ lpc' = [lpc EXCEPT ![s] = "update"]
  /\ UNCHANGED <<sheet, new_row, calls, returned>>

\* updated_data = pd.concat([existing_data, new_row]); conn.update(worksheet=
\* "Logs", data=updated_data); return True (app.py 227-229): the worksheet is
\* overwritten with the rows read earlier plus the new one.
LogUpdate(s) ==
  /\ lpc[s] = "update"
  /\ sheet' = Append(existing_data[s], new_row[s])
  /\ returned' = Append(returned, new_row[s])
  /\ lpc' = [lpc EXCEPT ![s] = "idle"]
  /\ UNCHANGED <<existing_data, new_row, calls>>

\* An exception in conn.read or conn.update: the call prints the error and
\* returns False (app.py 230-232).
LogError(s) ==
  /\ lpc[s] \in {"read", "update"}
  /\ lpc' = [lpc EXCEPT ![s] = "idle"]
  /\ UNCHANGED <<sheet, existing_data, new_row, calls, returned>>

\* The scoring engine on one uploaded document.
Init == InitCore /\ InitLog

Next ==
  \/ \E page \in PageTexts : ExtractPage(page) /\ UNCHANGED logVars
  \/ Analyze /\ UNCHANGED logVars
  \/ Resolve /\ UNCHANGED logVars

Spec == Init /\ [][Next]_vars

\* The logging calls of the sessions, interleaved.
LogNext ==
  \/ \E s \in Sessions, r \in LoggedResults : LogCall(s, r) /\ UNCHANGED coreVars
  \/ \E s \in Sessions : LogRead(s) /\ UNCHANGED coreVars
  \/ \E s \in Sessions : LogUpdate(s) /\ UNCHANGED coreVars
  \/ \E s \in Sessions : LogError(s) /\ UNCHANGED coreVars

LogSpec == Init /\ [][LogNext]_vars

(***************************************************************************)
(* Properties.                                                             *)
(***************************************************************************)

\* The number of whole-word occurrences of keywords of VERBS in the
\* lower-cased text: positions where a keyword starts, with no word
\* character right before it and none right after it.
WholeWordHits(text, VERBS) ==
  LET t == lower(text)
  IN  Cardinality({ i \in 1..Len(t) :
        \E k \in VERBS :
          /\ i + Len(k) - 1 <= Len(t)
          /\ SubSeq(t, i, i + Len(k) - 1) = k
          /\ (i = 1 \/ ~is_word_char(t[i - 1]))
          /\ (i + Len(k) - 1 = Len(t) \/ ~is_word_char(t[i + Len(k)])) })

NoLexiconToken(text) ==
  /\ WholeWordHits(text, BUILDER_VERBS) = 0
  /\ WholeWordHits(text, OPERATOR_VERBS) = 0
  /\ WholeWordHits(text, BRIDGE_VERBS) = 0

Scored == pc \in {"scored", "resolved"}
Resolved == pc = "resolved"
Gap == result.sorted_pcts[1][2] - result.sorted_pcts[2][2]
RankedNames == [i \in 1..3 |-> result.sorted_pcts[i][1]]

\* C1: a text in which no token is a Builder, Operator or Bridge keyword
\* (the empty text included, whatever context phrases it holds) resolves to
\* percentages 0, 0, 0, a gap of 0 and is_hybrid = true.
C1_NoMatchAllZero ==
  (Resolved /\ NoLexiconToken(resume_text)) =>
    /\ result.pcts = [Builder |-> 0, Operator |-> 0, Bridge |-> 0]
    /\ Gap = 0
    /\ result.is_hybrid = TRUE

C1_Witness ==
  /\ Resolved
  /\ NoLexiconToken(resume_text)
  /\ locals.is_executive
  /\ locals.is_commercial
  /\ is_substring(<<"r","e","b","u","i","l","d">>, lower(resume_text))

\* C2: each of the three percentages is an integer from 0 to 100, whichever
\* context flags are set.
C2_PercentagesInRange ==
  Resolved =>
    /\ result.pcts.Builder \in 0..100
    /\ result.pcts.Operator \in 0..100
    /\ result.pcts.Bridge \in 0..100

C2_Witness ==
  /\ Resolved
  /\ locals.is_executive
  /\ locals.is_commercial
  /\ result.pcts.Operator \in 1..99
  /\ result.pcts.Bridge \in 1..99

\* C3 as stated: with an executive-context phrase, Operator = O - floor(O*0.2)
\* and Bridge = Br + floor(O*0.2), O and Br being the base scores.
C3_Original ==
  (Scored /\ locals.is_executive) =>
    /\ scores.Operator = locals.operator_score - (locals.operator_score * 2) \div 10
    /\ scores.Bridge = locals.bridge_score + (locals.operator_score * 2) \div 10

\* C3 amended: with an executive-context phrase, Operator = O - floor(O*0.2)
\* and Bridge = Br' + floor(O*0.2), where Br' is the Bridge base score Br, or
\* floor(Br*1.5) when a commercial-context phrase is present too.
C3_ExecutiveShift ==
  (Scored /\ locals.is_executive) =>
    /\ scores.Operator = locals.operator_score - (locals.operator_score * 2) \div 10
    /\ scores.Bridge =
         (IF locals.is_commercial THEN (locals.bridge_score * 15) \div 10
          ELSE locals.bridge_score)
         + (locals.operator_score * 2) \div 10

C3_Witness ==
  /\ Scored
  /\ locals.is_executive
  /\ locals.is_commercial
  /\ locals.operator_score > 0
  /\ locals.bridge_score > 0

\* C4 as stated: with a commercial-context phrase, the Bridge score returned
\* is floor(B * 1.5), B being the Bridge base score.
C4_Original ==
  (Scored /\ locals.is_commercial) =>
    scores.Bridge = (locals.bridge_score * 15) \div 10

\* C4 amended: with a commercial-context phrase, the Bridge score returned is
\* floor(B * 1.5), plus floor(O * 0.2) when an executive-context phrase is
\* present too (O the Operator base score).
C4_CommercialBoost ==
  (Scored /\ locals.is_commercial) =>
    scores.Bridge =
      (locals.bridge_score * 15) \div 10
      + (IF locals.is_executive THEN (locals.operator_score * 2) \div 10 ELSE 0)

C4_Witness ==
  /\ Scored
  /\ locals.is_commercial
  /\ ~locals.is_executive
  /\ locals.bridge_score = 20
  /\ scores.Bridge = 30

\* The ranked pairs are in non-increasing order of percentage and equal
\* percentages appear in the order Builder, Operator, Bridge.
Position(name) == CHOOSE i \in 1..3 : name = <<"Builder", "Operator", "Bridge">>[i]
RankedInOrder ==
  \A i \in 1..2 :
    \/ result.sorted_pcts[i][2] > result.sorted_pcts[i + 1][2]
    \/ /\ result.sorted_pcts[i][2] = result.sorted_pcts[i + 1][2]
       /\ Position(result.sorted_pcts[i][1]) < Position(result.sorted_pcts[i + 1][1])
ThreeEqualCase ==
  (scores.Builder = scores.Operator /\ scores.Operator = scores.Bridge
   /\ scores.Builder > 0) =>
    /\ result.pcts.Builder = result.pcts.Operator
    /\ result.pcts.Operator = result.pcts.Bridge
    /\ RankedNames = <<"Builder", "Operator", "Bridge">>
FiftyFifty ==
  /\ result.pcts = [Builder |-> 50, Operator |-> 50, Bridge |-> 0]
  /\ result.sorted_pcts[1][1] = "Builder"
  /\ result.sorted_pcts[2][1] = "Operator"
  /\ Gap = 0
  /\ result.is_hybrid = TRUE

\* C5 as stated: ranked in non-increasing order, ties in the order Builder,
\* Operator, Bridge; three equal non-zero scores give three equal percentages
\* ranked Builder, Operator, Bridge; equal Builder and Operator scores with
\* Bridge 0 give 50/50/0, primary Builder, secondary Operator, gap 0, hybrid.
C5_Original ==
  Resolved =>
    /\ RankedInOrder
    /\ ThreeEqualCase
    /\ (scores.Builder = scores.Operator /\ scores.Bridge = 0) => FiftyFifty

\* C5 amended: as stated, the last case being equal non-zero Builder and
\* Operator scores with Bridge 0.
C5_RankingAndTies ==
  Resolved =>
    /\ RankedInOrder
    /\ ThreeEqualCase
    /\ (scores.Builder = scores.Operator /\ scores.Builder > 0
        /\ scores.Bridge = 0) => FiftyFifty

C5_Witness ==
  /\ Resolved
  /\ scores.Builder = 10 /\ scores.Operator = 10 /\ scores.Bridge = 10
  /\ result.sorted_pcts = << <<"Builder", 33>>, <<"Operator", 33>>, <<"Bridge", 33>> >>

ExampleOutcome ==
  /\ locals.builder_score = 30
  /\ locals.operator_score = 0
  /\ locals.bridge_score = 0
  /\ scores = [Builder |-> 30, Operator |-> 0, Bridge |-> 0, Total |-> 30]
  /\ result.pcts = [Builder |-> 100, Operator |-> 0, Bridge |-> 0]
  /\ result.sorted_pcts[1][1] = "Builder"
  /\ result.sorted_pcts[2][1] = "Operator"
  /\ Gap = 100
  /\ result.is_hybrid = FALSE

\* C6 as stated: "I build and build and build products" has 3 Builder hits,
\* no other hits and no context flag set, and yields scores 30/0/0, Total 30,
\* percentages 100/0/0, primary Builder, secondary Operator, gap 100 and
\* hybrid false.
C6_Original ==
  (Resolved /\ resume_text = ExampleText) =>
    /\ ExampleOutcome
    /\ locals.is_commercial = FALSE
    /\ locals.is_executive = FALSE

\* C6 amended: the same text has 3 Builder hits and no other hits, is_executive
\* false and is_commercial true (the phrase "pr" occurs in "products"), and
\* yields the scores, percentages, ranking, gap and hybrid flag stated.
C6_Example ==
  (Resolved /\ resume_text = ExampleText) =>
    /\ ExampleOutcome
    /\ locals.is_commercial = TRUE
    /\ locals.is_executive = FALSE

C6_Witness == Resolved /\ resume_text = ExampleText

\* C7: each base score is 10 times the number of whole-word occurrences of
\* the category's keywords in the lower-cased text, counted with repetition;
\* a keyword inside a longer token adds nothing.
C7_WholeWord ==
  Scored =>
    /\ locals.builder_score = 10 * WholeWordHits(resume_text, BUILDER_VERBS)
    /\ locals.operator_score = 10 * WholeWordHits(resume_text, OPERATOR_VERBS)
    /\ locals.bridge_score = 10 * WholeWordHits(resume_text, BRIDGE_VERBS)

C7_Witness ==
  /\ Scored
  /\ is_substring(<<"r","e","b","u","i","l","d"," ","b","u","i","l","d"," ">>,
                  lower(resume_text))
  /\ locals.builder_score = 10

\* C8: is_hybrid is true exactly when primary minus secondary percentage is
\* below 20; the gap is never negative; the ranked pairs carry the
\* percentages of pcts unchanged, whatever the flag.
C8_HybridRule ==
  Resolved =>
    /\ result.is_hybrid = (Gap < 20)
    /\ Gap >= 0
    /\ {result.sorted_pcts[i] : i \in 1..3} =
         { <<"Builder", result.pcts.Builder>>, <<"Operator", result.pcts.Operator>>,
           <<"Bridge", result.pcts.Bridge>> }

C8_Witness ==
  /\ Resolved
  /\ Gap = 20
  /\ result.is_hybrid = FALSE

\* C9: the ScoreSet has three non-negative scores and Total equal to their
\* sum, except that Total is 1 exactly when all three are 0; Total is never 0.
C9_ScoreSetTotal ==
  Scored =>
    LET sum == scores.Builder + scores.Operator + scores.Bridge
    IN  /\ scores.Builder \in Nat /\ scores.Operator \in Nat /\ scores.Bridge \in Nat
        /\ scores.Total = (IF sum = 0 THEN 1 ELSE sum)
        /\ (scores.Total = 1) <=> (sum = 0)
        /\ scores.Total # 0

C9_Witness ==
  /\ Scored
  /\ locals.is_executive
  /\ locals.is_commercial
  /\ scores.Operator > 0
  /\ scores.Bridge > 0
  /\ scores.Total = scores.Operator + scores.Bridge

\* C10: the log is append-only: after any set of log_to_gsheets calls that
\* returned True, interleaved or not, the 'Logs' worksheet holds one row per
\* call, the rows of all of them.
C10_AppendOnly ==
  /\ Len(sheet) = Len(returned)
  /\ \A i \in 1..Len(returned) : \E j \in 1..Len(sheet) : sheet[j] = returned[i]

====
